---- MODULE Spec2Model ----
(***************************************************************************)
(* Execution queue and run lifecycle of the Robot Framework test manager.  *)
(*                                                                         *)
(* The repository holds several snapshots of the same backend, which use   *)
(* different words for the same queue states.  The model keeps one queue   *)
(* table and one run-history table and maps the vocabularies as follows:   *)
(*   waiting : "queued"  = api ExecutionQueue "queued"                     *)
(*                       = QueueStatus.QUEUED (queue_service.py)           *)
(*                       = StatusEnum.PENDING (execution_service.py)       *)
(*   claimed : "processing" = api worker "running"                         *)
(*                          = QueueStatus.PROCESSING                       *)
(*   "completed", "failed"  = QueueStatus.COMPLETED / FAILED               *)
(* Run statuses keep the words of the code that writes them.               *)
(*                                                                         *)
(* Stored (committed) rows are the variables queue and runs; what a        *)
(* session holds before its commit is kept in the worker's own variables.  *)
(***************************************************************************)
EXTENDS Integers, Sequences, FiniteSets, TLC

VARIABLES
    queue,      \* committed queue rows
    runs,       \* committed run-history rows
    nextQid,    \* next value of the queue table's id sequence
    nextRid,    \* next value of the run-history table's id sequence
    now,        \* value the next datetime.utcnow() returns
    wpc,        \* api worker thread: position in _worker_loop
    witem,      \* api worker thread: id of the row it selected (0: none)
    wrun,       \* api worker thread: the RunHistory row flushed, not committed
    ppc,        \* QueueService.process_queue caller: position
    pitem,      \* QueueService.process_queue caller: id of the selected row
    prun,       \* QueueService.process_queue caller: id of the run being executed
    rpc,        \* remove_from_queue call in flight: position
    rsel,       \* remove_from_queue call in flight: case and selected row
    rret,       \* the last remove_from_queue call that returned: case and result
    running,    \* TestExecutorWorker.running, the flag its loop tests
    req,        \* the request answered last: entry point, arguments, response
    worker_started, \* the module's flag _worker_started
    spc,        \* start_background_worker calls in flight: position of each caller
    threads,    \* the _worker_loop threads that were started
    claims,     \* history: every (worker, item) pair of a claim that was committed
    removed     \* history: ids of the rows remove_from_queue reported removed

vars == <<queue, runs, nextQid, nextRid, now, wpc, witem, wrun, ppc, pitem, prun,
          rpc, rsel, rret, running, req, worker_started, spc, threads, claims,
          removed>>

\* the state of start_background_worker
startup == <<worker_started, spc, threads>>

\* what the handlers and the steps of the dispatchers leave alone: the
\* executor's flag, the record of the last request and the worker's start
aside == <<running, req, startup>>

----------------------------------------------------------------------------
(* Bounds of the model *)

MaxItems == 2
MaxRuns == 2
MaxBulk == 1
MaxTime == 2
MaxList == 2

(* Program constants *)

DefaultQueuePriority == 100
DefaultItemPriority == 0
DefaultExecutePriority == 1

Cases == {1, 2}             \* ids of the TestCase rows that exist
CaseIds == {1, 2, 3}        \* ids a request may name (3 resolves to no TestCase)
Priorities == {1, 5}        \* priorities a queue request may carry
Workers == {"w1", "w2"}     \* concurrently running _worker_loop threads
Callers == {"c1", "c2"}     \* threads that call start_background_worker
RunTypes == {"ad_hoc", "queued", "scheduled"}   \* run_type strings a request may carry

BulkLists == UNION {[1..n -> CaseIds] : n \in 1..MaxBulk}
\* the case_ids lists of the requests whose answers are recorded
ReqLists == UNION {[1..n -> CaseIds] : n \in 1..MaxList}

NoRun == [id |-> 0]
NoRequest == [op |-> "none", ids |-> <<>>, status |-> ""]
NoLog == [kind |-> "none", names |-> {}]
\* the object key the api worker stores: a bare string such as logs/run_7.txt
PlainKey == [kind |-> "key", names |-> {}]
\* a JSON object mapping artifact file names to object keys
JsonMap(names) == [kind |-> "json", names |-> names]

----------------------------------------------------------------------------
(* Rows *)

QueueRow(id, c, p, t) ==
    [id |-> id, case_id |-> c, status |-> "queued", priority |-> p,
     queued_at |-> t, started_at |-> 0, completed_at |-> 0]

RunRow(id, c, st, kind, t0, t1, log, item) ==
    [id |-> id, case_id |-> c, status |-> st, run_type |-> kind,
     start_time |-> t0, end_time |-> t1, log_path |-> log, item |-> item]

Item(id) == CHOOSE q \in queue : q.id = id
Stored(id) == \E q \in queue : q.id = id

\* UPDATE ... WHERE id = <id>: the row's columns overwritten by those of upd
UpdateRow(rows, id, upd) ==
    {IF q.id = id THEN [f \in DOMAIN q |-> IF f \in DOMAIN upd THEN upd[f] ELSE q[f]]
     ELSE q : q \in rows}

\* DELETE ... WHERE id = <id>: no row matched is only a warning of the ORM
DeleteRow(rows, id) == {q \in rows : q.id # id}

----------------------------------------------------------------------------
(* QueueService.add_to_queue: one session, one flush per added row, so the
   duplicate check of a later case id sees the rows added earlier in the
   call.  The check looks for a row of the case in status QUEUED only. *)

QS_Existing(rows, c) == \E q \in rows : q.case_id = c /\ q.status = "queued"

RECURSIVE QS_AddLoop(_, _, _, _, _, _)
QS_AddLoop(ids, i, p, rows, qid, t) ==
    IF i > Len(ids) THEN [rows |-> rows, qid |-> qid, t |-> t]
    ELSE IF ids[i] \notin Cases THEN QS_AddLoop(ids, i + 1, p, rows, qid, t)
    ELSE IF QS_Existing(rows, ids[i]) THEN QS_AddLoop(ids, i + 1, p, rows, qid, t)
    ELSE QS_AddLoop(ids, i + 1, p, rows \cup {QueueRow(qid, ids[i], p, t)},
                    qid + 1, t)

QS_add_to_queue(ids, p) ==
    LET r == QS_AddLoop(ids, 1, p, queue, nextQid, now) IN
    /\ queue' = r.rows
    /\ nextQid' = r.qid
    /\ UNCHANGED now
    /\ UNCHANGED <<runs, nextRid, wpc, witem, wrun, ppc, pitem, prun, rpc, rsel, rret,
                   claims, removed>>

----------------------------------------------------------------------------
(* POST /execute of the api package (routers/execute.py) *)

\* Variant of the queued loop without the lookup of the TestCase
RECURSIVE EC_QueueLoopNoLookup(_, _, _, _, _)
EC_QueueLoopNoLookup(ids, i, rows, qid, t) ==
    IF i > Len(ids) THEN [rows |-> rows, qid |-> qid, t |-> t]
    ELSE EC_QueueLoopNoLookup(ids, i + 1,
                      rows \cup {QueueRow(qid, ids[i], DefaultQueuePriority, t)},
                      qid + 1, t)

RECURSIVE EC_QueueLoop(_, _, _, _, _)
EC_QueueLoop(ids, i, rows, qid, t) ==
    IF i > Len(ids) THEN [rows |-> rows, qid |-> qid, t |-> t]
    ELSE IF ids[i] \notin Cases THEN EC_QueueLoop(ids, i + 1, rows, qid, t)
    ELSE EC_QueueLoop(ids, i + 1,
                      rows \cup {QueueRow(qid, ids[i], DefaultQueuePriority, t)},
                      qid + 1, t)

\* Variant of the ad_hoc loop that reuses the case's latest run row, setting
\* it to running again, where the handler inserts a new row.
RECURSIVE EC_RunLoopReuse(_, _, _, _, _)
EC_RunLoopReuse(ids, i, rows, rid, t) ==
    IF i > Len(ids) THEN [rows |-> rows, rid |-> rid, t |-> t]
    ELSE IF ids[i] \notin Cases THEN EC_RunLoopReuse(ids, i + 1, rows, rid, t)
    ELSE IF \E r \in rows : r.case_id = ids[i]
    THEN LET old == CHOOSE r \in rows : r.case_id = ids[i] /\
                        \A o \in rows : o.case_id = ids[i] => o.id <= r.id
         IN EC_RunLoopReuse(ids, i + 1,
                (rows \ {old}) \cup {[old EXCEPT !.status = "running", !.start_time = t]},
                rid, t)
    ELSE EC_RunLoopReuse(ids, i + 1,
                rows \cup {RunRow(rid, ids[i], "running", "ad_hoc", t, 0, NoLog, 0)},
                rid + 1, t)

RECURSIVE EC_RunLoop(_, _, _, _, _)
EC_RunLoop(ids, i, rows, rid, t) ==
    IF i > Len(ids) THEN [rows |-> rows, rid |-> rid, t |-> t]
    ELSE IF ids[i] \notin Cases THEN EC_RunLoop(ids, i + 1, rows, rid, t)
    ELSE EC_RunLoop(ids, i + 1,
                    rows \cup {RunRow(rid, ids[i], "running", "ad_hoc", t, 0, NoLog, 0)},
                    rid + 1, t)

execute_cases(ids, rt) ==
    /\ \/ /\ rt \notin {"ad_hoc", "queued"}
          /\ UNCHANGED <<queue, nextQid, runs, nextRid, now>>
       \/ /\ rt = "queued"
          /\ LET r == EC_QueueLoop(ids, 1, queue, nextQid, now) IN
                /\ queue' = r.rows
                /\ nextQid' = r.qid
          /\ UNCHANGED <<runs, nextRid, now>>
       \/ /\ rt = "ad_hoc"
          /\ LET r == EC_RunLoop(ids, 1, runs, nextRid, now) IN
                /\ runs' = r.rows
                /\ nextRid' = r.rid
          /\ UNCHANGED <<queue, nextQid, now>>
    /\ UNCHANGED <<wpc, witem, wrun, ppc, pitem, prun, rpc, rsel, rret, claims,
                   removed>>

----------------------------------------------------------------------------
(* ExecutionService (services/execution_service.py).  add_to_queue never
   flushes inside its loop and the sessions are made with autoflush=False,
   so its duplicate check reads the rows stored before the call. *)

ES_Existing(rows, c) == \E q \in rows : q.case_id = c /\ q.status = "queued"

RECURSIVE ES_AddLoop(_, _, _, _, _, _)
ES_AddLoop(ids, i, seen, rows, qid, t) ==
    IF i > Len(ids) THEN [rows |-> rows, qid |-> qid, t |-> t]
    ELSE IF ids[i] \notin Cases THEN ES_AddLoop(ids, i + 1, seen, rows, qid, t)
    ELSE IF ES_Existing(seen, ids[i]) THEN ES_AddLoop(ids, i + 1, seen, rows, qid, t)
    ELSE ES_AddLoop(ids, i + 1, seen,
                    rows \cup {QueueRow(qid, ids[i], DefaultItemPriority, t)},
                    qid + 1, t)

ES_add_to_queue(ids) ==
    LET r == ES_AddLoop(ids, 1, queue, queue, nextQid, now) IN
    /\ queue' = r.rows
    /\ nextQid' = r.qid
    /\ UNCHANGED now
    /\ UNCHANGED <<runs, nextRid, wpc, witem, wrun, ppc, pitem, prun, rpc, rsel, rret,
                   claims, removed>>

\* run_type_enum = AD_HOC if run_type == "ad_hoc" else QUEUED
RunTypeEnum(rt) == IF rt = "ad_hoc" THEN "ad_hoc" ELSE "queued"

\* Variant of execute_tests that adds the case to the queue whatever the
\* run_type is
RECURSIVE ES_ExecLoopAlwaysQueue(_, _, _, _, _, _, _, _)
ES_ExecLoopAlwaysQueue(ids, i, rt, rrows, rid, qrows, qid, t) ==
    IF i > Len(ids)
    THEN [runs |-> rrows, rid |-> rid, rows |-> qrows, qid |-> qid, t |-> t]
    ELSE IF ids[i] \notin Cases
    THEN ES_ExecLoopAlwaysQueue(ids, i + 1, rt, rrows, rid, qrows, qid, t)
    ELSE LET run == RunRow(rid, ids[i], "pending", RunTypeEnum(rt), 0, 0, NoLog, 0)
             q == ES_AddLoop(<<ids[i]>>, 1, qrows, qrows, qid, t)
         IN ES_ExecLoopAlwaysQueue(ids, i + 1, rt, rrows \cup {run}, rid + 1,
                                   q.rows, q.qid, q.t)

\* execute_tests: per case a PENDING RunHistory row, flushed; for run_type
\* "queued" the nested add_to_queue(db, [case_id]) then commits the session.
RECURSIVE ES_ExecLoop(_, _, _, _, _, _, _, _)
ES_ExecLoop(ids, i, rt, rrows, rid, qrows, qid, t) ==
    IF i > Len(ids)
    THEN [runs |-> rrows, rid |-> rid, rows |-> qrows, qid |-> qid, t |-> t]
    ELSE IF ids[i] \notin Cases
    THEN ES_ExecLoop(ids, i + 1, rt, rrows, rid, qrows, qid, t)
    ELSE LET run == RunRow(rid, ids[i], "pending", RunTypeEnum(rt), 0, 0, NoLog, 0)
             q == IF rt = "queued"
                  THEN ES_AddLoop(<<ids[i]>>, 1, qrows, qrows, qid, t)
                  ELSE [rows |-> qrows, qid |-> qid, t |-> t]
         IN ES_ExecLoop(ids, i + 1, rt, rrows \cup {run}, rid + 1,
                        q.rows, q.qid, q.t)

ES_execute_tests(ids, rt) ==
    LET r == ES_ExecLoop(ids, 1, rt, runs, nextRid, queue, nextQid, now) IN
    /\ queue' = r.rows
    /\ nextQid' = r.qid
    /\ runs' = r.runs
    /\ nextRid' = r.rid
    /\ UNCHANGED now
    /\ UNCHANGED <<wpc, witem, wrun, ppc, pitem, prun, rpc, rsel, rret, claims, removed>>

----------------------------------------------------------------------------
(* QueueService.remove_from_queue: a SELECT of the case's QUEUED row, then,
   in the same session, a DELETE of that row by primary key and a commit. *)

\* Variant of the SELECT without its status filter
RemoveCandidatesAnyStatus(c) == {q \in queue : q.case_id = c}

RemoveCandidates(c) == {q \in queue : q.case_id = c /\ q.status = "queued"}

\* lines 76-82: no QUEUED row of the case: return False, nothing written
RemoveSelect(c) ==
    /\ rpc = "idle"
    /\ \/ /\ RemoveCandidates(c) = {}
          /\ rret' = [case_id |-> c, ok |-> FALSE]
          /\ UNCHANGED <<rpc, rsel>>
       \/ \E q \in RemoveCandidates(c) :
             /\ rpc' = "selected"
             /\ rsel' = [case_id |-> c, id |-> q.id]
             /\ UNCHANGED rret
    /\ UNCHANGED <<queue, runs, nextQid, nextRid, now, wpc, witem, wrun, ppc,
                   pitem, prun, claims, removed>>

\* lines 84-88: db.delete(queue_item); db.commit(); return True
RemoveDelete ==
    /\ rpc = "selected"
    /\ queue' = DeleteRow(queue, rsel.id)
    /\ removed' = removed \cup {rsel.id}
    /\ rret' = [case_id |-> rsel.case_id, ok |-> TRUE]
    /\ rpc' = "idle"
    /\ rsel' = [case_id |-> 0, id |-> 0]
    /\ UNCHANGED <<runs, nextQid, nextRid, now, wpc, witem, wrun, ppc, pitem,
                   prun, claims>>

----------------------------------------------------------------------------
(* The background worker thread of the api package (api/workers.py) *)

\* Variant of the ordering with the priority descending
WorkerOrderDesc(a, b) ==
    \/ a.priority > b.priority
    \/ a.priority = b.priority /\ a.id <= b.id

\* order_by(ExecutionQueue.priority.asc(), ExecutionQueue.id.asc())
WorkerOrder(a, b) ==
    \/ a.priority < b.priority
    \/ a.priority = b.priority /\ a.id <= b.id

Queued(rows) == {q \in rows : q.status = "queued"}

\* .filter(status == "queued").order_by(...).first()
WorkerFirst(rows) == CHOOSE q \in Queued(rows) : \A r \in Queued(rows) : WorkerOrder(q, r)

WorkerSelect(w) ==
    /\ wpc[w] = "poll"
    /\ \/ /\ Queued(queue) = {}
          /\ UNCHANGED <<wpc, witem>>
       \/ /\ Queued(queue) # {}
          /\ wpc' = [wpc EXCEPT ![w] = "selected"]
          /\ witem' = [witem EXCEPT ![w] = WorkerFirst(queue).id]
    /\ UNCHANGED <<queue, runs, nextQid, nextRid, now, wrun, ppc, pitem, prun,
                   rpc, rsel, rret, claims, removed>>

\* item.status = "running"; db.commit(): an UPDATE by primary key.  When the
\* row is gone the ORM raises StaleDataError and the loop's handler sleeps.
WorkerMark(w) ==
    /\ wpc[w] = "selected"
    /\ \/ /\ Stored(witem[w])
          /\ queue' = UpdateRow(queue, witem[w], [status |-> "processing"])
          /\ claims' = claims \cup {[worker |-> w, item |-> witem[w],
                                      priority |-> Item(witem[w]).priority]}
          /\ wpc' = [wpc EXCEPT ![w] = "claimed"]
          /\ UNCHANGED witem
       \/ /\ ~Stored(witem[w])
          /\ wpc' = [wpc EXCEPT ![w] = "poll"]
          /\ witem' = [witem EXCEPT ![w] = 0]
          /\ UNCHANGED <<queue, claims>>
    /\ UNCHANGED <<runs, nextQid, nextRid, now, wrun, ppc, pitem, prun, rpc,
                   rsel, rret, removed>>

\* Variant of the start of _process_item that commits the RunHistory row
\* where the function only flushes it
ProcessBeginCommit(w) ==
    /\ wpc[w] = "claimed"
    /\ \/ /\ Stored(witem[w])
          /\ wrun' = [wrun EXCEPT ![w] =
                 RunRow(nextRid, Item(witem[w]).case_id, "running", "queued",
                        now, 0, NoLog, witem[w])]
          /\ runs' = runs \cup {RunRow(nextRid, Item(witem[w]).case_id, "running",
                                        "queued", now, 0, NoLog, witem[w])}
          /\ nextRid' = nextRid + 1
          /\ UNCHANGED now
          /\ wpc' = [wpc EXCEPT ![w] = "running"]
          /\ UNCHANGED witem
       \/ /\ ~Stored(witem[w])
          /\ wpc' = [wpc EXCEPT ![w] = "poll"]
          /\ witem' = [witem EXCEPT ![w] = 0]
          /\ UNCHANGED <<wrun, runs, nextRid, now>>
    /\ UNCHANGED <<queue, nextQid, ppc, pitem, prun, rpc, rsel, rret, claims, removed>>

\* _process_item, lines 21-23: item.case_id reloads the row expired by the
\* commit (ObjectDeletedError when it is gone); the RunHistory row is
\* flushed, which draws its id, and stays uncommitted.
ProcessBegin(w) ==
    /\ wpc[w] = "claimed"
    /\ \/ /\ Stored(witem[w])
          /\ wrun' = [wrun EXCEPT ![w] =
                 RunRow(nextRid, Item(witem[w]).case_id, "running", "queued",
                        now, 0, NoLog, witem[w])]
          /\ nextRid' = nextRid + 1
          /\ UNCHANGED now
          /\ wpc' = [wpc EXCEPT ![w] = "running"]
          /\ UNCHANGED witem
       \/ /\ ~Stored(witem[w])
          /\ wpc' = [wpc EXCEPT ![w] = "poll"]
          /\ witem' = [witem EXCEPT ![w] = 0]
          /\ UNCHANGED <<wrun, nextRid, now>>
    /\ UNCHANGED <<queue, runs, nextQid, ppc, pitem, prun, rpc, rsel, rret, claims, removed>>

\* Variant of the commit that leaves end_time unset
FinishedRunNoEnd(run, t) ==
    [run EXCEPT !.status = "success", !.log_path = PlainKey]

\* the row _process_item commits: status, end_time and log_path set
FinishedRun(run, t) ==
    [run EXCEPT !.status = "success", !.end_time = t, !.log_path = PlainKey]

\* Variant in which the exception of put_object ends the thread
ProcessFinishFatal(w) ==
    /\ wpc[w] = "running"
    /\ \/ /\ runs' = runs \cup {FinishedRun(wrun[w], now)}
          /\ queue' = DeleteRow(queue, witem[w])
          /\ wpc' = [wpc EXCEPT ![w] = "poll"]
       \/ /\ UNCHANGED <<runs, queue>>
          /\ wpc' = [wpc EXCEPT ![w] = "stopped"]
    /\ witem' = [witem EXCEPT ![w] = 0]
    /\ wrun' = [wrun EXCEPT ![w] = NoRun]
    /\ UNCHANGED <<nextQid, nextRid, now, ppc, pitem, prun, rpc, rsel, rret,
                   claims, removed>>

\* _process_item, lines 29-43.  put_object either raises (the session is
\* closed, which rolls the RunHistory row back, and the queue row stays as
\* marked) or returns, and then one commit stores the finished run and
\* deletes the queue row.
ProcessFinish(w) ==
    /\ wpc[w] = "running"
    /\ \/ /\ runs' = runs \cup {FinishedRun(wrun[w], now)}
          /\ queue' = DeleteRow(queue, witem[w])
          /\ UNCHANGED now
       \/ UNCHANGED <<runs, queue, now>>
    /\ wpc' = [wpc EXCEPT ![w] = "poll"]
    /\ witem' = [witem EXCEPT ![w] = 0]
    /\ wrun' = [wrun EXCEPT ![w] = NoRun]
    /\ UNCHANGED <<nextQid, nextRid, ppc, pitem, prun, rpc, rsel, rret, claims,
                   removed>>

----------------------------------------------------------------------------
(* QueueService.process_queue as TestExecutorWorker.start calls it, with
   max_concurrent = 1 (services/queue_service.py, workers/test_executor.py) *)

\* order_by(QueueItem.priority.desc(), QueueItem.queued_at.asc())
ProcessOrder(a, b) ==
    \/ a.priority > b.priority
    \/ a.priority = b.priority /\ a.queued_at <= b.queued_at

ProcessFirst(rows) == {q \in Queued(rows) : \A r \in Queued(rows) : ProcessOrder(q, r)}

\* Variant of the selection after which the dispatcher is not run again
\* once it found the queue empty
PQSelectOnce ==
    /\ ppc = "idle"
    /\ \/ /\ Queued(queue) = {}
          /\ ppc' = "stopped"
          /\ UNCHANGED pitem
       \/ \E q \in ProcessFirst(queue) :
             /\ ppc' = "selected"
             /\ pitem' = q.id
    /\ UNCHANGED <<queue, runs, nextQid, nextRid, now, wpc, witem, wrun, prun,
                   rpc, rsel, rret, claims, removed>>

PQSelect ==
    /\ ppc = "idle"
    /\ \/ /\ Queued(queue) = {}
          /\ UNCHANGED <<ppc, pitem>>
       \/ \E q \in ProcessFirst(queue) :
             /\ ppc' = "selected"
             /\ pitem' = q.id
    /\ UNCHANGED <<queue, runs, nextQid, nextRid, now, wpc, witem, wrun, prun,
                   rpc, rsel, rret, claims, removed>>

\* Variant of the mark that leaves started_at unset
PQMarkNoStart ==
    /\ ppc = "selected"
    /\ \/ /\ Stored(pitem)
          /\ queue' = UpdateRow(queue, pitem, [status |-> "processing"])
          /\ UNCHANGED now
          /\ claims' = claims \cup {[worker |-> "pq", item |-> pitem,
                                      priority |-> Item(pitem).priority]}
          /\ ppc' = "processing"
          /\ UNCHANGED pitem
       \/ /\ ~Stored(pitem)
          /\ ppc' = "idle"
          /\ pitem' = 0
          /\ UNCHANGED <<queue, now, claims>>
    /\ UNCHANGED <<runs, nextQid, nextRid, wpc, witem, wrun, prun, rpc, rsel, rret,
                   removed>>

\* lines 141-143: status PROCESSING, started_at, commit.  A row that is gone
\* makes the commit raise; the handler's own commit raises again and the
\* call ends with nothing stored.
PQMark ==
    /\ ppc = "selected"
    /\ \/ /\ Stored(pitem)
          /\ queue' = UpdateRow(queue, pitem,
                                [status |-> "processing", started_at |-> now])
          /\ UNCHANGED now
          /\ claims' = claims \cup {[worker |-> "pq", item |-> pitem,
                                      priority |-> Item(pitem).priority]}
          /\ ppc' = "processing"
          /\ UNCHANGED pitem
       \/ /\ ~Stored(pitem)
          /\ ppc' = "idle"
          /\ pitem' = 0
          /\ UNCHANGED <<queue, now, claims>>
    /\ UNCHANGED <<runs, nextQid, nextRid, wpc, witem, wrun, prun, rpc, rsel, rret,
                   removed>>

\* ExecutionService.execute_test_case, first half: the run record is stored
\* in status running with its start time.
ExecStart(rid, c, item, t) == RunRow(rid, c, "running", "queued", t, 0, NoLog, item)

\* ExecutionService.execute_test_case, second half: the outcome of the runner
\* becomes the terminal status, with the end time and the artifact keys.
ExecOutcomes == {"completed", "failed", "error"}

ExecEnd(run, st, t) ==
    [run EXCEPT !.status = st, !.end_time = t,
                !.log_path = IF st = "error" THEN NoLog
                             ELSE JsonMap({"log.html", "output.xml", "report.html"})]

Run(id) == CHOOSE r \in runs : r.id = id

\* lines 146-150, the call: item.case_id reloads the row expired by the
\* commit (a row that is gone ends the call with nothing stored).  The
\* executor either raises before it stores a run record, which the handler
\* of lines 159-163 turns into status FAILED, or stores the running record.
PQBegin ==
    /\ ppc = "processing"
    /\ \/ /\ Stored(pitem)
          /\ runs' = runs \cup {ExecStart(nextRid, Item(pitem).case_id, pitem, now)}
          /\ prun' = nextRid
          /\ nextRid' = nextRid + 1
          /\ ppc' = "executing"
          /\ UNCHANGED <<queue, pitem>>
       \/ /\ Stored(pitem)
          /\ queue' = UpdateRow(queue, pitem,
                                [status |-> "failed", completed_at |-> now])
          /\ ppc' = "idle"
          /\ pitem' = 0
          /\ UNCHANGED <<runs, prun, nextRid>>
       \/ /\ ~Stored(pitem)
          /\ ppc' = "idle"
          /\ pitem' = 0
          /\ UNCHANGED <<queue, runs, prun, nextRid>>
    /\ UNCHANGED <<nextQid, now, wpc, witem, wrun, rpc, rsel, rret, claims, removed>>

\* lines 146-155, the return: the executor stored the terminal run record
\* and returned its id; status COMPLETED and completed_at are committed (an
\* UPDATE by primary key, which changes nothing when the row is gone).
PQFinish(outcomes) ==
    /\ ppc = "executing"
    /\ \E st \in outcomes :
          runs' = (runs \ {Run(prun)}) \cup {ExecEnd(Run(prun), st, now)}
    /\ queue' = UpdateRow(queue, pitem,
                          [status |-> "completed", completed_at |-> now])
    /\ ppc' = "idle"
    /\ pitem' = 0
    /\ prun' = 0
    /\ UNCHANGED <<nextQid, nextRid, now, wpc, witem, wrun, rpc, rsel, rret, claims,
                   removed>>

----------------------------------------------------------------------------
(* POST /execute/ of api/routers/execution.py: every case id is looked up
   before anything is done, and one unknown id rejects the request. *)

\* ExecutionService.execute_multiple_test_cases: a run record per case,
\* stored as started
RECURSIVE ExecMultiple(_, _, _, _, _)
ExecMultiple(ids, i, rows, rid, t) ==
    IF i > Len(ids) THEN [rows |-> rows, rid |-> rid, t |-> t]
    ELSE ExecMultiple(ids, i + 1,
             rows \cup {[ExecStart(rid, ids[i], 0, t) EXCEPT !.run_type = "ad_hoc"]},
             rid + 1, t)

AllCasesExist(ids) == \A i \in 1..Len(ids) : ids[i] \in Cases

execute_test_cases(ids, rt) ==
    /\ \/ /\ ~AllCasesExist(ids)
          /\ UNCHANGED <<queue, nextQid, runs, nextRid>>
       \/ /\ AllCasesExist(ids)
          /\ rt = "ad_hoc"
          /\ LET r == ExecMultiple(ids, 1, runs, nextRid, now) IN
                /\ runs' = r.rows
                /\ nextRid' = r.rid
          /\ UNCHANGED <<queue, nextQid>>
       \/ /\ AllCasesExist(ids)
          /\ rt = "queued"
          /\ LET r == QS_AddLoop(ids, 1, DefaultExecutePriority, queue, nextQid, now) IN
                /\ queue' = r.rows
                /\ nextQid' = r.qid
          /\ UNCHANGED <<runs, nextRid>>
       \/ /\ AllCasesExist(ids)
          /\ rt \notin {"ad_hoc", "queued"}
          /\ UNCHANGED <<queue, nextQid, runs, nextRid>>
    /\ UNCHANGED <<now, wpc, witem, wrun, ppc, pitem, prun, rpc, rsel, rret, claims,
                   removed>>

----------------------------------------------------------------------------
(* The answers of the entry points: "rejected" is an HTTP 400, "accepted"
   the success envelope (or, for the service methods, a normal return). *)

execute_cases_status(ids, rt) ==
    IF rt \notin {"ad_hoc", "queued"} THEN "rejected" ELSE "accepted"

execute_test_cases_status(ids, rt) ==
    IF ~AllCasesExist(ids) THEN "rejected"
    ELSE IF rt \in {"ad_hoc", "queued"} THEN "accepted"
    ELSE "rejected"

Answered(op, ids, st) ==
    /\ req' = [op |-> op, ids |-> ids, status |-> st]
    /\ UNCHANGED <<running, startup>>

Req_add_to_queue(ids) ==
    /\ QS_add_to_queue(ids, DefaultExecutePriority)
    /\ Answered("add_to_queue", ids, "accepted")

Req_execute_cases(ids, rt) ==
    /\ execute_cases(ids, rt)
    /\ Answered("execute_cases", ids, execute_cases_status(ids, rt))

Req_execute_test_cases(ids, rt) ==
    /\ execute_test_cases(ids, rt)
    /\ Answered("execute_test_cases", ids, execute_test_cases_status(ids, rt))

Req_ES_execute_tests(ids, rt) ==
    /\ ES_execute_tests(ids, rt)
    /\ Answered("ES_execute_tests", ids, "accepted")

----------------------------------------------------------------------------
(* start_background_worker (api/workers.py): the flag is read, the thread is
   created and started, and the flag is set last, with no lock held.  Each
   action is one of these steps of one caller, so that the calls of several
   threads interleave. *)

\* lines 75-76: if _worker_started: return
StartCheck(c) ==
    /\ spc[c] = "idle"
    /\ spc' = [spc EXCEPT ![c] = IF worker_started THEN "returned" ELSE "create"]
    /\ UNCHANGED <<worker_started, threads>>

\* lines 77-78: t = threading.Thread(target=_worker_loop, ...); t.start()
StartThread(c) ==
    /\ spc[c] = "create"
    /\ \E w \in Workers \ threads : threads' = threads \cup {w}
    /\ spc' = [spc EXCEPT ![c] = "set"]
    /\ UNCHANGED worker_started

\* line 79: _worker_started = True, and the call returns
StartFlag(c) ==
    /\ spc[c] = "set"
    /\ worker_started' = TRUE
    /\ spc' = [spc EXCEPT ![c] = "returned"]
    /\ UNCHANGED threads

\* the caller calls again
StartAgain(c) ==
    /\ spc[c] = "returned"
    /\ spc' = [spc EXCEPT ![c] = "idle"]
    /\ UNCHANGED <<worker_started, threads>>

start_background_worker(c) ==
    /\ \/ StartCheck(c)
       \/ StartThread(c)
       \/ StartFlag(c)
       \/ StartAgain(c)
    /\ UNCHANGED <<queue, runs, nextQid, nextRid, now, wpc, witem, wrun, ppc,
                   pitem, prun, rpc, rsel, rret, claims, removed, running, req>>

----------------------------------------------------------------------------
(* Shutdown.  The api worker is a daemon thread with no stop flag
   (start_background_worker): when the process exits the thread ends at
   whatever line it is, and its open session is rolled back.  The
   TestExecutorWorker tests self.running before each process_queue call;
   its signal handler and stop() clear the flag. *)

Shutdown(w) ==
    /\ wpc[w] # "stopped"
    /\ wpc' = [wpc EXCEPT ![w] = "stopped"]
    /\ wrun' = [wrun EXCEPT ![w] = NoRun]
    /\ UNCHANGED <<queue, runs, nextQid, nextRid, now, witem, ppc, pitem, prun,
                   rpc, rsel, rret, claims, removed, req>>
    /\ UNCHANGED <<running, startup>>

signal_handler ==
    /\ running
    /\ running' = FALSE
    /\ UNCHANGED <<queue, runs, nextQid, nextRid, now, wpc, witem, wrun, ppc,
                   pitem, prun, rpc, rsel, rret, claims, removed, req, startup>>

\* while self.running: await queue_service.process_queue(...)
ExecutorLoop ==
    /\ \/ running /\ PQSelect
       \/ PQMark
       \/ PQBegin
       \/ PQFinish({"completed"})
    /\ UNCHANGED aside

----------------------------------------------------------------------------
(* The queue listings: QueueService.get_queue_status and
   ExecutionService.get_queue read every row with
   order_by(priority.desc(), queued_at.asc()) and write nothing.  Rows equal
   in both columns come in whatever order the database gives them. *)

\* order_by(QueueItem.priority.desc(), QueueItem.queued_at.asc())
ListOrder(a, b) ==
    \/ a.priority > b.priority
    \/ a.priority = b.priority /\ a.queued_at <= b.queued_at

\* the listings the query may return: every arrangement of the rows that
\* follows the ordering
get_queue_status(rows) ==
    {l \in [1..Cardinality(rows) -> rows] :
        /\ \A i, j \in DOMAIN l : i # j => l[i] # l[j]
        /\ \A i, j \in DOMAIN l : i < j => ListOrder(l[i], l[j])}


----------------------------------------------------------------------------
(* GET /history/logs/{run_id} (api/routers/history.py).  The handler parses
   what the run has as its log column as a JSON object of artifact names and
   answers 500 for whatever goes wrong after the two 404 checks.  The key
   the api worker writes to log_path is no such object. *)

get_execution_logs(run) ==
    IF run.log_path = NoLog THEN "404"
    ELSE IF run.log_path.kind # "json" THEN "500"
    ELSE IF run.log_path.names \cap {"log.html", "output.xml"} = {} THEN "500"
    ELSE "url"

\* lines 162-168: the run is looked up by its id first, 404 when it is not stored
LogResponse(id) ==
    IF ~\E r \in runs : r.id = id THEN "404"
    ELSE get_execution_logs(CHOOSE r \in runs : r.id = id)

\* the wall clock that datetime.utcnow() reads advances
Tick ==
    /\ now' = now + 1
    /\ UNCHANGED <<queue, runs, nextQid, nextRid, wpc, witem, wrun, ppc, pitem,
                   prun, rpc, rsel, rret, claims, removed>>

----------------------------------------------------------------------------

Init ==
    /\ queue = {}
    /\ runs = {}
    /\ nextQid = 1
    /\ nextRid = 1
    /\ now = 1
    /\ wpc = [w \in Workers |-> "poll"]
    /\ witem = [w \in Workers |-> 0]
    /\ wrun = [w \in Workers |-> NoRun]
    /\ ppc = "idle"
    /\ pitem = 0
    /\ prun = 0
    /\ rpc = "idle"
    /\ rsel = [case_id |-> 0, id |-> 0]
    /\ rret = [case_id |-> 0, ok |-> FALSE]
    /\ running = TRUE
    /\ req = NoRequest
    /\ worker_started = FALSE
    /\ spc = [c \in Callers |-> "idle"]
    /\ threads = {}
    /\ claims = {}
    /\ removed = {}

\* the id sequences and the clock stay within the model's bounds
Within(items, rows, time) ==
    /\ nextQid' <= items + 1
    /\ nextRid' <= rows + 1
    /\ now' <= time

Enqueue(prios) ==
    \/ \E ids \in BulkLists, p \in prios : QS_add_to_queue(ids, p)
    \/ \E ids \in BulkLists, rt \in RunTypes : execute_cases(ids, rt)

Remove ==
    \/ \E c \in CaseIds : RemoveSelect(c)
    \/ RemoveDelete

Worker(w) ==
    \/ WorkerSelect(w)
    \/ WorkerMark(w)
    \/ ProcessBegin(w)
    \/ ProcessFinish(w)

ProcessQueue(outcomes) ==
    \/ PQSelect
    \/ PQMark
    \/ PQBegin
    \/ PQFinish(outcomes)

ExecutionServiceCalls ==
    \/ \E ids \in BulkLists : ES_add_to_queue(ids)
    \/ \E ids \in BulkLists, rt \in RunTypes : ES_execute_tests(ids, rt)

\* The deployed api process: its handlers and the one worker thread that
\* start_background_worker starts.
Next ==
    /\ \/ Enqueue({DefaultExecutePriority})
       \/ Remove
       \/ Worker("w1")
    /\ Within(MaxItems, MaxRuns, 1)
    /\ UNCHANGED aside

Spec == Init /\ [][Next]_vars

\* Two worker threads on the same tables (one per server process).
NextRace ==
    /\ \/ Enqueue({DefaultExecutePriority})
       \/ Remove
       \/ \E w \in Workers : Worker(w)
    /\ Within(MaxItems, MaxRuns, 1)
    /\ UNCHANGED aside

SpecRace == Init /\ [][NextRace]_vars

\* The TestExecutorWorker process with the queue handlers.
NextPQ ==
    /\ \/ \E ids \in BulkLists, p \in {DefaultExecutePriority} : QS_add_to_queue(ids, p)
       \/ Remove
       \/ ProcessQueue(ExecOutcomes)
       \/ Tick
    /\ Within(MaxItems, MaxRuns, MaxTime)
    /\ UNCHANGED aside

SpecPQ == Init /\ [][NextPQ]_vars

\* Requests of several priorities, dispatched by a worker thread and by the
\* TestExecutorWorker process.
NextDispatch ==
    /\ \/ \E ids \in BulkLists, p \in Priorities : QS_add_to_queue(ids, p)
       \/ Remove
       \/ Worker("w1")
       \/ ProcessQueue({"completed"})
    /\ Within(MaxItems, MaxRuns, 1)
    /\ UNCHANGED aside

SpecDispatch == Init /\ [][NextDispatch]_vars

\* The deployed api process with its worker thread scheduled for ever: the
\* thread of start_background_worker loops without an exit, so a step of
\* its loop that can be taken is taken.  Requests stay within the bounds;
\* the thread draws the run ids it needs.
NextLive ==
    /\ \/ Enqueue({DefaultExecutePriority}) /\ Within(MaxItems, MaxRuns, 1)
       \/ Remove
       \/ Worker("w1")
    /\ UNCHANGED aside

SpecLive == Init /\ [][NextLive]_vars /\ WF_vars(Worker("w1") /\ UNCHANGED aside)

\* The deployed api process with the wall clock moving.
NextClock ==
    /\ \/ Enqueue({DefaultExecutePriority})
       \/ Remove
       \/ Worker("w1")
       \/ Tick
    /\ Within(MaxItems, MaxRuns, MaxTime)
    /\ UNCHANGED aside

SpecClock == Init /\ [][NextClock]_vars

\* Both dispatchers with their ways of stopping.
NextStop ==
    /\ \/ (\E ids \in BulkLists : QS_add_to_queue(ids, DefaultExecutePriority))
             /\ UNCHANGED aside
       \/ Remove /\ UNCHANGED aside
       \/ Worker("w1") /\ UNCHANGED aside
       \/ Shutdown("w1")
       \/ ExecutorLoop
       \/ signal_handler
    /\ Within(MaxItems, MaxRuns, 1)

SpecStop == Init /\ [][NextStop]_vars

\* Every execute and enqueue entry point, each answer recorded.
NextRequests ==
    /\ \/ \E ids \in ReqLists : Req_add_to_queue(ids)
       \/ \E ids \in ReqLists, rt \in RunTypes : Req_execute_cases(ids, rt)
       \/ \E ids \in ReqLists, rt \in RunTypes : Req_execute_test_cases(ids, rt)
       \/ \E ids \in ReqLists, rt \in RunTypes : Req_ES_execute_tests(ids, rt)
    /\ Within(MaxItems, MaxRuns, 1)

SpecRequests == Init /\ [][NextRequests]_vars

\* The execute entry points called while the worker thread has items
\* queued and in execution.
NextAdHoc ==
    /\ \/ \E ids \in BulkLists, rt \in RunTypes : execute_cases(ids, rt)
       \/ \E ids \in BulkLists, rt \in RunTypes : ES_execute_tests(ids, rt)
       \/ Remove
       \/ Worker("w1")
    /\ Within(MaxItems, MaxRuns, 1)
    /\ UNCHANGED aside

SpecAdHoc == Init /\ [][NextAdHoc]_vars

\* A process whose threads call start_background_worker, the handlers of
\* the queue, and the worker threads that were started.
NextStartup ==
    /\ \/ \E c \in Callers : start_background_worker(c)
       \/ (\E ids \in BulkLists : QS_add_to_queue(ids, DefaultExecutePriority))
             /\ UNCHANGED aside
       \/ (\E w \in threads : Worker(w)) /\ UNCHANGED aside
    /\ Within(MaxItems, MaxRuns, 1)

SpecStartup == Init /\ [][NextStartup]_vars

\* The two add_to_queue methods called with lists of several case ids,
\* next to the worker thread and remove_from_queue.
NextBulk ==
    /\ \/ \E ids \in ReqLists : QS_add_to_queue(ids, DefaultExecutePriority)
       \/ \E ids \in ReqLists : ES_add_to_queue(ids)
       \/ Remove
       \/ Worker("w1")
    /\ Within(MaxItems, MaxRuns, 1)
    /\ UNCHANGED aside

SpecBulk == Init /\ [][NextBulk]_vars

\* The TestExecutorWorker process running for ever: its loop calls
\* process_queue again after every return and after every exception, so a
\* step of process_queue that can be taken is taken, and every execution
\* ends (returning or raising).  Requests of several priorities stay within
\* the bounds.
NextLivePQ ==
    /\ \/ (\E ids \in BulkLists, p \in Priorities : QS_add_to_queue(ids, p))
             /\ Within(MaxItems, MaxRuns, 1)
       \/ Remove
       \/ ProcessQueue(ExecOutcomes)
    /\ UNCHANGED aside

SpecLivePQ ==
    Init /\ [][NextLivePQ]_vars /\ WF_vars(ProcessQueue(ExecOutcomes) /\ UNCHANGED aside)

----------------------------------------------------------------------------
(* Properties *)

\* the status words of the snapshots: "success" is the api worker's word for
\* a passed run, "completed" the queue's
ActiveStatuses == {"queued", "processing"}
TerminalStatuses == {"success", "passed", "completed", "failed", "error", "cancelled"}
SuccessStatuses == {"success", "passed", "completed"}

ActiveItems(c) == {q \in queue : q.case_id = c /\ q.status \in ActiveStatuses}
QueuedItems(c) == {q \in queue : q.case_id = c /\ q.status = "queued"}
DispatchRuns(id) == {r \in runs : r.item = id}

\* C1: in every reachable state each case has at most one queue item whose
\* status is queued or processing.
C1_OneActiveItemPerCase ==
    \A c \in Cases : Cardinality(ActiveItems(c)) <= 1

\* C2: no item is ever claimed by two workers: every committed claim of an
\* item is by the same worker.
C2_ClaimedByOneWorker ==
    \A a, b \in claims : a.item = b.item => a.worker = b.worker

\* the row is first in ascending priority, then ascending id, among the queued rows
LowestFirst(id) ==
    \A r \in Queued(queue) :
        \/ Item(id).priority < r.priority
        \/ Item(id).priority = r.priority /\ id <= r.id

\* the row is first in descending priority, then ascending queued_at
HighestFirst(id) ==
    \A r \in Queued(queue) :
        \/ Item(id).priority > r.priority
        \/ Item(id).priority = r.priority /\ Item(id).queued_at <= r.queued_at

WorkerSelects(w) == wpc[w] = "poll" /\ wpc'[w] = "selected"
ProcessQueueSelects == ppc = "idle" /\ ppc' = "selected"

C4_NoItemAddedWhileActive ==
    [][\A c \in Cases :
          ActiveItems(c) # {} => {q \in queue' : q.case_id = c} \subseteq queue]_vars

\* C5: remove selects only a queued item of the case, without writing; its
\* delete returns true and takes exactly the selected row out of the queue;
\* it returns false only for a case without a queued item (none at all, or
\* one already processing or finished), and then changes nothing stored.
C5_RemoveContract ==
    [][/\ (rpc = "idle" /\ rpc' = "selected") =>
             /\ rsel'.id \in {q.id : q \in QueuedItems(rsel'.case_id)}
             /\ queue' = queue /\ runs' = runs /\ removed' = removed
       /\ (rpc = "selected" /\ rpc' = "idle") =>
             /\ rret' = [case_id |-> rsel.case_id, ok |-> TRUE]
             /\ queue' = {q \in queue : q.id # rsel.id}
             /\ \A q \in queue' : q.id # rsel.id
             /\ runs' = runs
       /\ (rret' # rret /\ ~rret'.ok) =>
             /\ QueuedItems(rret'.case_id) = {}
             /\ queue' = queue /\ runs' = runs /\ removed' = removed]_vars

\* C5 witness: one remove returned true and its item is gone; a later remove
\* for a case whose item is processing returned false and the item is kept.
C5_RemovedAndRefused ==
    /\ removed # {}
    /\ \A id \in removed : ~Stored(id)
    /\ ~rret.ok
    /\ \E q \in queue : q.case_id = rret.case_id /\ q.status = "processing"

\* C6: an item is never both removed by a remove call and executed by a
\* worker.
C6_NeverRemovedAndExecuted ==
    \A id \in removed : DispatchRuns(id) = {}

\* C7: every run of a dispatched item that reached the successful terminal
\* status has a stored log key and a retrievable log URL, and its queue item
\* is deleted.
C7_SuccessfulRunComplete ==
    \A r \in runs :
        (r.item # 0 /\ r.status \in SuccessStatuses) =>
            /\ r.log_path # NoLog
            /\ get_execution_logs(r) = "url"
            /\ ~Stored(r.item)

\* C8: a claimed item is gone from the queue only when a run record of its
\* dispatch is stored in a terminal status.
C8_DeletedOnlyAfterTerminalRun ==
    \A c \in claims :
        ~Stored(c.item) =>
            \E r \in DispatchRuns(c.item) : r.status \in TerminalStatuses

\* C9: a dispatched item has at most one run record, and no item is stored
\* once its run record is terminal.
C9_ExactlyOneRunPerItem ==
    /\ \A id \in {c.item : c \in claims} : Cardinality(DispatchRuns(id)) <= 1
    /\ \A r \in runs :
          (r.item # 0 /\ r.status \in TerminalStatuses) => ~Stored(r.item)

\* the run records that exist: the stored ones and those a worker's session
\* has flushed and not yet committed
RunRecords == runs \cup {wrun[w] : w \in {v \in Workers : wrun[v] # NoRun}}

StatusMove(a, b) ==
    \/ a = "pending" /\ b = "running"
    \/ a = "running" /\ b \in TerminalStatuses

\* C10: a run record changes only by moving its status from pending to
\* running or from running to a terminal status; a record in a terminal
\* status is kept as it is by every step.
C10_RunLifecycle ==
    [][\A r \in RunRecords :
          /\ r.status \in TerminalStatuses => r \in RunRecords'
          /\ \A n \in RunRecords' :
                n.id = r.id => (n = r \/ StatusMove(r.status, n.status))]_vars

\* C10 witness: a run finished by the worker is stored in a terminal status,
\* unchanged, after a later run record was created.
C10_TerminalThenLater ==
    \E r \in runs :
        /\ r.status = "success" /\ r.end_time # 0 /\ r.log_path = PlainKey
        /\ \E n \in runs : n.id > r.id /\ n.case_id = r.case_id

RunIds == 1..(MaxRuns + MaxItems)
OpenRun(id) == \E r \in runs : r.id = id /\ r.status \notin TerminalStatuses
ClosedRun(id) == \E r \in runs : r.id = id /\ r.status \in TerminalStatuses

\* C11: every stored run record that is pending or running eventually is in
\* a terminal status.
C11_EveryRunTerminates ==
    \A id \in RunIds : OpenRun(id) ~> ClosedRun(id)

\* C12: every stored run record with both timestamps set has its end time
\* at or after its start time, and every stored run record in a terminal
\* status has its end time set.
C12_Timestamps ==
    \A r \in runs :
        /\ (r.start_time # 0 /\ r.end_time # 0) => r.end_time >= r.start_time
        /\ r.status \in TerminalStatuses => r.end_time # 0

\* C12 witness: a run finished by the worker after the clock moved on.
C12_FinishedLater ==
    \E r \in runs : r.status = "success" /\ r.end_time > r.start_time /\ r.start_time # 0

\* a dispatcher has the item in hand
Held(id) ==
    \/ pitem = id
    \/ \E w \in Workers : witem[w] = id /\ wpc[w] \notin {"poll", "stopped"}

\* the item is stored as claimed and no dispatcher has it in hand
Abandoned(id) ==
    /\ ~Held(id)
    /\ \E q \in queue : q.id = id /\ q.status = "processing"

ItemIds == 1..MaxItems

\* C13: when the execution of an item ended with the runner or the store
\* raising, a run record of the item is stored in status error or failed
\* with its end time set.
C13_FailureRecorded ==
    \A id \in ItemIds :
        Abandoned(id) =>
            \E r \in DispatchRuns(id) :
                r.status \in {"error", "failed"} /\ r.end_time # 0

\* C14: however the store answers, the step that ends the execution of an
\* item stores the item's run record with the status the outcome dictates.
C14_VerdictSurvivesStoreFailure ==
    [][\A w \in Workers :
          (wpc[w] = "running" /\ wpc'[w] = "poll") =>
              \E r \in runs' : r.id = wrun[w].id /\ r.status \in SuccessStatuses]_vars

\* C15: an item left claimed with no dispatcher working on it is eventually
\* queued again.
C15_AbandonedItemRequeued ==
    \A id \in ItemIds :
        Abandoned(id) ~> (\E q \in queue : q.id = id /\ q.status = "queued")

Claimed(id) == \E c \in claims : c.item = id

\* C16: the worker thread is at its poll again and again, whatever an
\* iteration raised, and every item that is queued is claimed (or removed
\* by a remove call before the worker got it).
C16_LoopSurvives ==
    /\ []<>(wpc["w1"] = "poll")
    /\ \A id \in ItemIds :
          (\E q \in queue : q.id = id /\ q.status = "queued")
              ~> (Claimed(id) \/ id \in removed)

\* C16 witness: the execution of item 1 raised, and the worker then ran
\* item 2 (its run drew the id after the one of the failed attempt).
C16_FailedThenProcessed ==
    /\ Abandoned(1)
    /\ \E r \in DispatchRuns(2) : r.id = 2 /\ r.status = "success"

\* C17: a worker that has stopped has left no item claimed and unfinished:
\* the item it had in hand, if any, is not stored in the claimed status.
C17_StopLeavesNoClaimedItem ==
    \A w \in Workers :
        wpc[w] = "stopped" =>
            ~\E q \in queue : q.id = witem[w] /\ q.status = "processing"

\* C18: no queue item and no run record is stored for a case id that
\* resolves to no TestCase.
C18_NoRowForUnknownCase ==
    /\ \A q \in queue : q.case_id \in Cases
    /\ \A r \in runs : r.case_id \in Cases

\* C18 witness: an accepted request named an unknown case along with an
\* existing one, and only the existing one has a row.
C18_UnknownSkipped ==
    /\ req.status = "accepted"
    /\ \E i, k \in 1..Len(req.ids) : req.ids[i] \notin Cases /\ req.ids[k] \in Cases
    /\ queue # {}
    /\ runs # {}

UnknownRunTypes == RunTypes \ {"ad_hoc", "queued"}

\* C19: on every execute entry point a request whose run_type is neither
\* ad_hoc nor queued is rejected and stores no queue item and no run record.
C19_UnknownRunTypeRejected ==
    [][\A ids \in ReqLists, rt \in UnknownRunTypes :
          (\/ Req_execute_cases(ids, rt)
           \/ Req_execute_test_cases(ids, rt)
           \/ Req_ES_execute_tests(ids, rt)) =>
              /\ req'.status = "rejected"
              /\ queue' = queue /\ runs' = runs]_vars

\* the request served the case: a queued item of it is stored afterwards
\* (queued) or a run record of it was added (ad_hoc)
Served(c, rt) ==
    IF rt = "queued"
    THEN \E q \in queue' : q.case_id = c /\ q.status = "queued"
    ELSE \E r \in runs' \ runs : r.case_id = c

\* C20: a request listing several case ids serves each of its existing
\* cases, whatever the other ids of the list are.
C20_BulkServesValidCases ==
    [][\A ids \in ReqLists :
          /\ \A rt \in {"ad_hoc", "queued"} :
                (Req_execute_cases(ids, rt) \/ Req_execute_test_cases(ids, rt)
                    \/ Req_ES_execute_tests(ids, rt)) =>
                    \A i \in 1..Len(ids) : ids[i] \in Cases => Served(ids[i], rt)
          /\ Req_add_to_queue(ids) =>
                \A i \in 1..Len(ids) : ids[i] \in Cases => Served(ids[i], "queued")]_vars

\* the first row of the listing that is in status queued
FirstQueued(l) ==
    l[CHOOSE i \in DOMAIN l :
          l[i].status = "queued" /\ \A j \in DOMAIN l : j < i => l[j].status # "queued"]

\* C21: every listing of the queue is sorted by ascending priority value and
\* then ascending submission time, and whenever an item is queued the first
\* queued item of the listing is the item the worker thread selects next (or
\* one equal to it in priority and submission time).
C21_ListingInDispatchOrder ==
    \A l \in get_queue_status(queue) :
        /\ \A i, j \in DOMAIN l : i < j =>
              \/ l[i].priority < l[j].priority
              \/ l[i].priority = l[j].priority /\ l[i].queued_at <= l[j].queued_at
        /\ Queued(queue) # {} =>
              /\ FirstQueued(l).priority = WorkerFirst(queue).priority
              /\ FirstQueued(l).queued_at = WorkerFirst(queue).queued_at


\* C22: an ad_hoc execute request is accepted whatever the queue holds, adds
\* an ad_hoc run record for each existing case it names, and leaves every
\* queue item and the queue's id sequence as they were.
C22_AdHocLeavesQueue ==
    [][\A ids \in BulkLists :
          (execute_cases(ids, "ad_hoc") \/ ES_execute_tests(ids, "ad_hoc")) =>
              /\ execute_cases_status(ids, "ad_hoc") = "accepted"
              /\ queue' = queue
              /\ nextQid' = nextQid
              /\ \A i \in 1..Len(ids) : ids[i] \in Cases =>
                    \E r \in runs' \ runs : r.case_id = ids[i] /\ r.run_type = "ad_hoc"]_vars

\* C22 witness: an ad_hoc run record was stored for a case whose item the
\* worker thread is executing (the ad_hoc run drew its id after the
\* worker's run record), and the item is still stored as claimed.
C22_AdHocWhileProcessing ==
    /\ wpc["w1"] = "running"
    /\ \E q \in queue, r \in runs :
          /\ q.id = witem["w1"] /\ q.status = "processing"
          /\ r.case_id = q.case_id /\ r.run_type = "ad_hoc"
          /\ r.id > wrun["w1"].id

\* C23: however many calls of start_background_worker were made, and
\* however they interleave, at most one worker loop thread has been started.
C23_AtMostOneWorkerThread ==
    Cardinality(threads) <= 1

\* the exit code of the Robot Framework executable on the script of the
\* case: zero when every test passes; the script of case 2 has a failing test
ExitCode(c) == IF c = 2 THEN 1 ELSE 0

\* C24: every terminal run record of a dispatched item has the status the
\* exit code of its case's script gives (zero: the successful status,
\* nonzero: failed), with its end time set and its artifact keys recorded.
C24_StatusByExitCode ==
    \A r \in runs :
        (r.item # 0 /\ r.status \in TerminalStatuses) =>
            /\ ExitCode(r.case_id) = 0 => r.status \in SuccessStatuses
            /\ ExitCode(r.case_id) # 0 => r.status = "failed"
            /\ r.end_time # 0
            /\ r.log_path # NoLog


\* C25: the step that ends an execution stores the run record of that
\* execution: in a successful status when the work finished, and in status
\* error with its end time set when it did not finish (timeout, exception).
C25_UnfinishedRunIsError ==
    [][\A w \in Workers :
          (wpc[w] = "running" /\ wpc'[w] = "poll") =>
              \E r \in runs' :
                  /\ r.id = wrun[w].id
                  /\ \/ r.status \in SuccessStatuses
                     \/ r.status = "error" /\ r.end_time # 0]_vars


\* C26: the log endpoint answers with a URL exactly for the run ids that are
\* stored with a log key, and with 404 for every other run id; it never
\* answers with a server error.
C26_LogUrlOrNotFound ==
    \A id \in RunIds :
        /\ LogResponse(id) \in {"url", "404"}
        /\ LogResponse(id) = "url" <=> \E r \in runs : r.id = id /\ r.log_path # NoLog

\* C27: one add_to_queue call, of QueueService or of ExecutionService, adds
\* at most one queue item per case, also when its list names the case more
\* than once.
C27_OneItemPerCasePerCall ==
    [][\A ids \in ReqLists :
          (QS_add_to_queue(ids, DefaultExecutePriority) \/ ES_add_to_queue(ids)) =>
              \A c \in Cases :
                  Cardinality({q \in queue' \ queue : q.case_id = c}) <= 1]_vars

\* the process_queue call returns: its last commit, of COMPLETED after the
\* executor returned or of FAILED after it raised, went through (the commit
\* raises, and so does the call, when the row is gone)
PQReturns == ppc \in {"processing", "executing"} /\ ppc' = "idle" /\ Stored(pitem)

\* C28: when process_queue returns, the item it claimed is stored as
\* completed if the executor returned and as failed if it raised, with
\* started_at and completed_at set and started_at <= completed_at, and every
\* other queue row is as it was.
C28_ClaimedItemFinished ==
    [][PQReturns =>
          /\ \E q \in queue' :
                /\ q.id = pitem
                /\ q.status = (IF ppc = "executing" THEN "completed" ELSE "failed")
                /\ q.started_at # 0 /\ q.completed_at # 0
                /\ q.started_at <= q.completed_at
          /\ \A q \in queue : q.id # pitem => q \in queue'
          /\ \A q \in queue' : q.id # pitem => q \in queue]_vars

\* C28 witness: two calls have returned, one after the executor returned and
\* one after it raised, the first of them after the clock had moved on.
C28_CompletedAndFailed ==
    /\ ppc = "idle"
    /\ \E a, b \in queue :
          /\ a.status = "completed" /\ a.started_at # 0 /\ a.completed_at > a.started_at
          /\ b.status = "failed" /\ b.started_at # 0 /\ b.completed_at # 0

\* the run records the worker threads created
WorkerRuns(rows) == {r \in rows : r.item # 0}

\* C29: every stored run record of a worker thread is terminal with its end
\* time and log_path set, and its queue item is not stored; the step that
\* ends an execution either stores the finished run record and deletes the
\* item at once, or stores and deletes nothing.
C29_RunAndDeleteInOneCommit ==
    [][/\ \A r \in WorkerRuns(runs') :
             /\ r.status \in TerminalStatuses
             /\ r.end_time # 0
             /\ r.log_path # NoLog
             /\ \A q \in queue' : q.id # r.item
       /\ \A w \in Workers :
             (wpc[w] = "running" /\ wpc'[w] = "poll") =>
                 \/ /\ runs' = runs \cup {FinishedRun(wrun[w], now)}
                    /\ queue' = DeleteRow(queue, witem[w])
                 \/ /\ runs' = runs
                    /\ queue' = queue]_vars

\* C29 witness: the run of item 1 is stored finished and the item is gone;
\* the execution of item 2 then failed before its commit: the attempt drew
\* run id 2, no run record of the item is stored and the item is kept.
C29_CommittedThenFailed ==
    /\ \E r \in runs : r.item = 1 /\ r.id = 1 /\ r.status = "success"
    /\ ~Stored(1)
    /\ Abandoned(2)
    /\ nextRid = 3
    /\ DispatchRuns(2) = {}

\* C30: with the dispatcher running and finitely many enqueues, every item
\* that is queued is eventually claimed by the dispatcher, unless a remove
\* call takes it out of the queue first: neither items of higher priority,
\* nor items whose execution failed, nor a poll of the empty queue keep it
\* waiting for ever.
C30_QueuedItemIsClaimed ==
    \A id \in ItemIds :
        (\E q \in queue : q.id = id /\ q.status = "queued")
            ~> ((\E c \in claims : c.item = id /\ c.worker = "pq") \/ id \in removed)

\* C30 witness: item 1 was claimed and its execution failed, and item 2,
\* of the lower priority and queued while the dispatcher had found the queue
\* empty or was busy, was claimed after it.
C30_ClaimedAfterFailed ==
    /\ \E q \in queue : q.id = 1 /\ q.status = "failed" /\ q.priority = 5
    /\ \E q \in queue : q.id = 2 /\ q.status \in {"processing", "completed"} /\ q.priority = 1
    /\ [worker |-> "pq", item |-> 2, priority |-> 1] \in claims

====
